---- MODULE Spec2Model ----
(***************************************************************************)
(* Archon login server: the configuration singleton (configuration.go),   *)
(* the packet framing handlers (packets.go) and the fixed-layout          *)
(* character records (character.go).                                       *)
(*                                                                         *)
(* Strings are sequences of one-character strings; byte arrays are         *)
(* sequences of numbers in 0..255; a nil pointer is 0 and an allocated     *)
(* configuration is its index in heap.                                     *)
(***************************************************************************)
EXTENDS Integers, Sequences, FiniteSets, TLC

VARIABLES
    loginConfig,      \* configuration.go:106  the singleton pointer (0 = nil)
    heap,             \* every configuration allocated by new(configuration)
    gor,              \* per goroutine: where it stands in GetConfig / LogMsg
    cachedHostBytes,  \* configuration.go:107
    dbHandles,        \* the *sql.DB values sql.Open has returned: "open" / "closed"
    initDbStored,     \* history: per configuration, the handle InitDb last stored
    client,           \* the Client handed to the packet handlers (its two vectors)
    wire,             \* the bytes last handed to client.conn.Write
    walk,             \* the struct whose fields are being laid out, field by field
    laid,             \* the size and alignment of every struct laid out so far
    last              \* the outcome of the last completed call

vars == <<loginConfig, heap, gor, cachedHostBytes, dbHandles, initDbStored,
          client, wire, walk, laid, last>>

cfgVars == <<loginConfig, heap, gor, cachedHostBytes>>
dbVars == <<dbHandles, initDbStored>>
pktVars == <<client, wire>>
layVars == <<walk, laid>>

(***************************************************************************)
(* Bounds of the model.                                                    *)
(***************************************************************************)
MaxHandles == 3
MaxSeed == 2

Goroutines == {"g1", "g2"}

Bytes == 0..255

Min(a, b) == IF a < b THEN a ELSE b

(***************************************************************************)
(* configuration.go                                                        *)
(***************************************************************************)
LogPriorityCritical == 1
LogPriorityHigh == 2
LogPriorityMedium == 3
LogPriorityLow == 4

HostLoopback == <<"1","2","7",".","0",".","0",".","1">>
HostLan == <<"1","0",".","0",".","0",".","2">>
HostZeroFirst == <<"0",".","1",".","2",".","3">>
HostShort == <<"5",".","6">>
HostBig == <<"3","0","0",".","a",".","7",".","8",".","9">>

DefaultLoginPort == <<"1","2","0","0","0">>
DefaultCharacterPort == <<"1","2","0","0","1">>
LogfileName == <<"l","o","g">>

\* new(configuration): every field has its zero value.
NewConfiguration ==
    [Hostname |-> <<>>, LoginPort |-> <<>>, CharacterPort |-> <<>>,
     Logfile |-> <<>>, LogLevel |-> 0, database |-> 0]

\* The files InitFromFile is given: unreadable, not JSON, or a JSON object
\* holding some of the fields.
ConfigFiles ==
    { [readable |-> FALSE, valid |-> FALSE, has |-> {}, Hostname |-> <<>>,
       LoginPort |-> <<>>, Logfile |-> <<>>, LogLevel |-> 0],
      [readable |-> TRUE, valid |-> FALSE, has |-> {"Hostname", "LogLevel"},
       Hostname |-> HostLan, LoginPort |-> <<>>, Logfile |-> <<>>, LogLevel |-> 9],
      [readable |-> TRUE, valid |-> TRUE, has |-> {}, Hostname |-> <<>>,
       LoginPort |-> <<>>, Logfile |-> <<>>, LogLevel |-> 0],
      [readable |-> TRUE, valid |-> TRUE, has |-> {"Hostname", "LogLevel"},
       Hostname |-> HostLoopback, LoginPort |-> <<>>, Logfile |-> <<>>,
       LogLevel |-> LogPriorityMedium],
      [readable |-> TRUE, valid |-> TRUE, has |-> {"Hostname", "LogLevel"},
       Hostname |-> HostLan, LoginPort |-> <<>>, Logfile |-> <<>>,
       LogLevel |-> 9],
      [readable |-> TRUE, valid |-> TRUE, has |-> {"Hostname", "Logfile", "LogLevel"},
       Hostname |-> HostZeroFirst, LoginPort |-> <<>>, Logfile |-> LogfileName,
       LogLevel |-> 300],
      [readable |-> TRUE, valid |-> TRUE, has |-> {"Hostname"},
       Hostname |-> HostShort, LoginPort |-> <<>>, Logfile |-> <<>>, LogLevel |-> 0],
      [readable |-> TRUE, valid |-> TRUE, has |-> {"Hostname", "LogLevel"},
       Hostname |-> HostBig, LoginPort |-> <<>>, Logfile |-> <<>>,
       LogLevel |-> 0] }

\* json.Unmarshal(data, config): invalid JSON changes nothing; a member
\* that is present overwrites its field; a number that does not fit the
\* byte-sized LogPriority is skipped. The error is dropped by the caller.
Unmarshal(file, config) ==
    IF ~file.valid THEN config
    ELSE [config EXCEPT
            !.Hostname = IF "Hostname" \in file.has THEN file.Hostname ELSE @,
            !.LoginPort = IF "LoginPort" \in file.has THEN file.LoginPort ELSE @,
            !.Logfile = IF "Logfile" \in file.has THEN file.Logfile ELSE @,
            !.LogLevel = IF "LogLevel" \in file.has /\ file.LogLevel \in Bytes
                         THEN file.LogLevel ELSE @]

enforceDefaults(config) ==
    [config EXCEPT
        !.Hostname = IF @ = <<>> THEN HostLoopback ELSE @,
        !.LoginPort = IF @ = <<>> THEN DefaultLoginPort ELSE @,
        !.CharacterPort = IF @ = <<>> THEN DefaultCharacterPort ELSE @,
        !.LogLevel = IF @ < LogPriorityCritical \/ @ > LogPriorityLow
                     THEN LogPriorityCritical ELSE @]

Idle == [pc |-> "idle", op |-> "none", priority |-> 0, got |-> 0]

Init ==
    /\ loginConfig = 0
    /\ heap = <<>>
    /\ gor = [g \in Goroutines |-> Idle]
    /\ cachedHostBytes = <<0, 0, 0, 0>>
    /\ dbHandles = <<>>
    /\ initDbStored = <<>>
    /\ client = [connected |-> FALSE, clientVector |-> <<>>, serverVector |-> <<>>]
    /\ wire = <<>>
    /\ walk = [type |-> "none", numItems |-> 0, idx |-> 0, at |-> 0, sum |-> 0,
               end |-> 0, align |-> 1]
    /\ laid = <<>>
    /\ last = [op |-> "none"]

(***************************************************************************)
(* GetConfig, at the grain of its reads and writes of loginConfig: the     *)
(* nil test (line 112), the allocation and store (113), the read that is   *)
(* returned (115). LogMsg begins with a call of GetConfig (line 59).       *)
(***************************************************************************)
Enter(g, op, priority) ==
    /\ gor[g].pc = "idle"
    /\ gor' = [gor EXCEPT ![g] = [@ EXCEPT !.op = op, !.priority = priority,
                   !.pc = IF loginConfig = 0 THEN "new" ELSE "ret"]]
    /\ UNCHANGED <<loginConfig, heap, cachedHostBytes, dbVars, pktVars, layVars, last>>

GetConfigCall(g) == Enter(g, "GetConfig", 0)

GetConfigNew(g) ==
    /\ gor[g].pc = "new"
    /\ heap' = Append(heap, NewConfiguration)
    /\ initDbStored' = Append(initDbStored, 0)
    /\ loginConfig' = Len(heap) + 1
    /\ gor' = [gor EXCEPT ![g].pc = "ret"]
    /\ UNCHANGED <<cachedHostBytes, dbHandles, pktVars, layVars, last>>

GetConfigReturn(g) ==
    /\ gor[g].pc = "ret"
    /\ IF gor[g].op = "LogMsg"
       THEN /\ gor' = [gor EXCEPT ![g].got = loginConfig, ![g].pc = "log"]
            /\ UNCHANGED last
       ELSE /\ gor' = [gor EXCEPT ![g] = [Idle EXCEPT !.got = loginConfig]]
            /\ last' = [op |-> "GetConfig", g |-> g, ret |-> loginConfig]
    /\ UNCHANGED <<loginConfig, heap, cachedHostBytes, dbVars, pktVars, layVars>>

LogPriorities == LogPriorityCritical..LogPriorityLow

LogMsgCall(g, priority) == Enter(g, "LogMsg", priority)

\* What becomes of the message: dropped by the level test (line 60),
\* printed to standard out (74), or appended to the log file unless the
\* open (76) or the write (82) fails.
LogOutcomes(config, priority) ==
    IF priority > config.LogLevel THEN {"suppressed"}
    ELSE IF config.Logfile = <<>> THEN {"stdout"}
    ELSE {"logfile", "openfailed", "writefailed"}

LogMsgBody(g) ==
    /\ gor[g].pc = "log"
    /\ \E out \in LogOutcomes(heap[gor[g].got], gor[g].priority) :
          last' = [op |-> "LogMsg", priority |-> gor[g].priority, out |-> out]
    /\ gor' = [gor EXCEPT ![g] = [Idle EXCEPT !.got = gor[g].got]]
    /\ UNCHANGED <<loginConfig, heap, cachedHostBytes, dbVars, pktVars, layVars>>

\* A method call on the configuration that goroutine g got from GetConfig.
Holds(g) == gor[g].pc = "idle" /\ gor[g].got # 0

InitFromFile(g, file) ==
    /\ Holds(g)
    /\ IF ~file.readable
       THEN /\ UNCHANGED heap
            /\ last' = [op |-> "InitFromFile", config |-> gor[g].got, err |-> TRUE]
       ELSE /\ heap' = [heap EXCEPT ![gor[g].got] = enforceDefaults(Unmarshal(file, @))]
            /\ last' = [op |-> "InitFromFile", config |-> gor[g].got, err |-> FALSE]
    /\ UNCHANGED <<loginConfig, gor, cachedHostBytes, dbVars, pktVars, layVars>>

(***************************************************************************)
(* HostnameBytes: strings.Split, strconv.ParseUint(s, 10, 8), uint8().     *)
(***************************************************************************)
Digits == <<"0","1","2","3","4","5","6","7","8","9">>

IsDigit(c) == \E i \in 1..Len(Digits) : Digits[i] = c

DigitValue(c) == (CHOOSE i \in 1..Len(Digits) : Digits[i] = c) - 1

\* strings.Split(s, sep) for a one-character separator: the pieces between
\* the separators, Split("", ".") being the one empty string.
RECURSIVE SplitFrom(_, _, _, _)
SplitFrom(s, sep, i, cur) ==
    IF i > Len(s) THEN <<cur>>
    ELSE IF s[i] = sep THEN <<cur>> \o SplitFrom(s, sep, i + 1, <<>>)
    ELSE SplitFrom(s, sep, i + 1, Append(cur, s[i]))

Split(s, sep) == SplitFrom(s, sep, 1, <<>>)

RECURSIVE DecimalValue(_, _)
DecimalValue(s, n) ==
    IF n = 0 THEN 0 ELSE DecimalValue(s, n - 1) * 10 + DigitValue(s[n])

\* The value strconv.ParseUint(s, 10, 8) returns; the error is dropped by
\* the caller. A syntax error (empty, or a character that is no digit)
\* gives 0, a value out of the 8-bit range gives the largest one, 255.
ParseUint8(s) ==
    IF s = <<>> \/ \E i \in 1..Len(s) : ~IsDigit(s[i]) THEN 0
    ELSE Min(DecimalValue(s, Len(s)), 255)

RECURSIVE HostLoopReversed(_, _, _)
HostLoopReversed(cache, parts, i) ==
    IF i > 4 THEN [cache |-> cache, panic |-> FALSE]
    ELSE IF i > Len(parts) THEN [cache |-> cache, panic |-> TRUE]
    ELSE HostLoopReversed([cache EXCEPT ![5 - i] = ParseUint8(parts[i]) % 256], parts, i + 1)

\* The loop of lines 153-156 from index i on (1-based): parts[i] past the
\* end of parts panics, the bytes stored before it staying in the cache.
RECURSIVE HostLoop(_, _, _)
HostLoop(cache, parts, i) ==
    IF i > 4 THEN [cache |-> cache, panic |-> FALSE]
    ELSE IF i > Len(parts) THEN [cache |-> cache, panic |-> TRUE]
    ELSE HostLoop([cache EXCEPT ![i] = ParseUint8(parts[i]) % 256], parts, i + 1)

HostnameBytesAlways(cache, hostname) == HostLoop(cache, Split(hostname, "."), 1)

\* The cache after a call and whether the call panicked.
HostnameBytesOf(cache, hostname) ==
    IF cache[1] = 0
    THEN HostLoop(cache, Split(hostname, "."), 1)
    ELSE [cache |-> cache, panic |-> FALSE]

HostnameBytes(g) ==
    /\ Holds(g)
    /\ LET hostname == heap[gor[g].got].Hostname
           r == HostnameBytesOf(cachedHostBytes, hostname)
           \* the call before this one was HostnameBytes too, on the same
           \* configuration, and returned
           again == /\ last.op = "HostnameBytes"
                    /\ ~last.panic
                    /\ last.config = gor[g].got
                    /\ last.hostname = hostname IN
         /\ cachedHostBytes' = r.cache
         /\ last' = [op |-> "HostnameBytes", config |-> gor[g].got,
                     hostname |-> hostname,
                     before |-> cachedHostBytes, panic |-> r.panic,
                     ret |-> IF r.panic THEN <<>> ELSE r.cache,
                     again |-> again,
                     prev |-> IF again THEN last.ret ELSE <<>>]
    /\ UNCHANGED <<loginConfig, heap, gor, dbVars, pktVars, layVars>>

(***************************************************************************)
(* InitDb, CloseDb, Database.                                              *)
(***************************************************************************)
\* sql.Open gives a new handle, or nil and an error; Ping then succeeds or
\* fails. The error returned is the one of sql.Open (line 168).
InitDbReturns(openOk, pingOk) == ~openOk

InitDb(g, openOk, pingOk) ==
    /\ Holds(g)
    /\ Len(dbHandles) < MaxHandles
    /\ LET c == gor[g].got
           h == IF openOk THEN Len(dbHandles) + 1 ELSE 0 IN
         /\ dbHandles' = IF openOk THEN Append(dbHandles, "open") ELSE dbHandles
         /\ heap' = [heap EXCEPT ![c].database = h]
         /\ initDbStored' = [initDbStored EXCEPT ![c] = h]
         /\ last' = [op |-> "InitDb", config |-> c, openOk |-> openOk,
                     pingOk |-> openOk /\ pingOk,
                     err |-> InitDbReturns(openOk, pingOk)]
    /\ UNCHANGED <<loginConfig, gor, cachedHostBytes, pktVars, layVars>>

\* config.database.Close(): a nil handle panics.
CloseDb(g) ==
    /\ Holds(g)
    /\ LET c == gor[g].got IN
         IF heap[c].database = 0
         THEN /\ last' = [op |-> "CloseDb", config |-> c, panic |-> TRUE]
              /\ UNCHANGED dbHandles
         ELSE /\ last' = [op |-> "CloseDb", config |-> c, panic |-> FALSE]
              /\ dbHandles' = [dbHandles EXCEPT ![heap[c].database] = "closed"]
    /\ UNCHANGED <<cfgVars, initDbStored, pktVars, layVars>>

DatabaseNoCheck(config) == [panic |-> FALSE, ret |-> config.database]

\* Lines 180-185: panic on a nil handle, else the handle.
DatabaseOf(config) ==
    IF config.database = 0 THEN [panic |-> TRUE, ret |-> 0]
    ELSE [panic |-> FALSE, ret |-> config.database]

Database(g) ==
    /\ Holds(g)
    /\ LET c == gor[g].got
           r == DatabaseOf(heap[c]) IN
         last' = [op |-> "Database", config |-> c, panic |-> r.panic, ret |-> r.ret]
    /\ UNCHANGED <<cfgVars, dbVars, pktVars, layVars>>

\* The goroutine that runs the server's start-up and, in Spec and SpecDb,
\* every call.
Main == "g1"

MainGetConfigCall == GetConfigCall(Main)
MainGetConfigNew == GetConfigNew(Main)
MainGetConfigReturn == GetConfigReturn(Main)
MainLogMsgCall == \E p \in LogPriorities : LogMsgCall(Main, p)
MainLogMsgBody == LogMsgBody(Main)
MainInitFromFile == \E f \in ConfigFiles : InitFromFile(Main, f)
MainHostnameBytes == HostnameBytes(Main)
MainInitDb == \E openOk \in BOOLEAN, pingOk \in BOOLEAN : InitDb(Main, openOk, pingOk)
MainCloseDb == CloseDb(Main)
MainDatabase == Database(Main)

\* The configuration and its log, one call at a time: GetConfig, LogMsg,
\* InitFromFile, HostnameBytes.
Next ==
    \/ MainGetConfigCall
    \/ MainGetConfigNew
    \/ MainGetConfigReturn
    \/ MainLogMsgCall
    \/ MainLogMsgBody
    \/ MainInitFromFile
    \/ MainHostnameBytes

Spec == Init /\ [][Next]_vars

\* The database handle, one call at a time: GetConfig, InitDb, CloseDb,
\* Database.
NextDb ==
    \/ MainGetConfigCall
    \/ MainGetConfigNew
    \/ MainGetConfigReturn
    \/ MainInitDb
    \/ MainCloseDb
    \/ MainDatabase

SpecDb == Init /\ [][NextDb]_vars

AnyGetConfigCall == \E g \in Goroutines : GetConfigCall(g)
AnyGetConfigNew == \E g \in Goroutines : GetConfigNew(g)
AnyGetConfigReturn == \E g \in Goroutines : GetConfigReturn(g)
AnyLogMsgCall == \E g \in Goroutines, p \in LogPriorities : LogMsgCall(g, p)
AnyLogMsgBody == \E g \in Goroutines : LogMsgBody(g)

\* Several goroutines calling GetConfig and LogMsg, their steps interleaved.
NextRace ==
    \/ AnyGetConfigCall
    \/ AnyGetConfigNew
    \/ AnyGetConfigReturn
    \/ AnyLogMsgCall
    \/ AnyLogMsgBody

SpecRace == Init /\ [][NextRace]_vars

(***************************************************************************)
(* packets.go                                                              *)
(***************************************************************************)
BBHeaderSize == 8
WelcomeType == 3
WelcomeSize == 200
CopyrightSize == 96
VectorSize == 48

\* "Phantasy Star Online Blue Burst Game Server. Copyright 1999-2004 SONICTEAM."
bbCopyright ==
    <<80, 104, 97, 110, 116, 97, 115, 121, 32, 83, 116, 97, 114, 32, 79, 110,
      108, 105, 110, 101, 32, 66, 108, 117, 101, 32, 66, 117, 114, 115, 116, 32,
      71, 97, 109, 101, 32, 83, 101, 114, 118, 101, 114, 46, 32, 67, 111, 112,
      121, 114, 105, 103, 104, 116, 32, 49, 57, 57, 57, 45, 50, 48, 48, 52, 32,
      83, 79, 78, 73, 67, 84, 69, 65, 77, 46>>

Zeros(n) == [i \in 1..n |-> 0]

\* copy(dst, src): the first min(len(dst), len(src)) elements of src over dst.
Copy(dst, src) == [i \in 1..Len(dst) |-> IF i <= Len(src) THEN src[i] ELSE dst[i]]

\* make([]byte, 96), filled by init().
copyrightBytes == Copy(Zeros(CopyrightSize), bbCopyright)

\* The vectors the encryption collaborator makes for a connection: 48 bytes
\* for the Blue Burst cipher, 4 for the older one; seed picks the content.
VectorLens == {4, VectorSize}

Vector(seed, len) == [i \in 1..len |-> (seed * 16 + i * 5 + 1) % 256]

NewClient(cseed, clen, sseed, slen) ==
    /\ client' = [connected |-> TRUE, clientVector |-> Vector(cseed, clen),
                  serverVector |-> Vector(sseed + MaxSeed + 1, slen)]
    /\ wire' = <<>>
    /\ last' = [op |-> "NewClient"]
    /\ UNCHANGED <<cfgVars, dbVars, layVars>>

\* A value of v in n bytes, low byte first.
RECURSIVE LittleEndian(_, _)
LittleEndian(v, n) ==
    IF n = 0 THEN <<>> ELSE <<v % 256>> \o LittleEndian(v \div 256, n - 1)

\* util.BytesFromStruct: the fields in their declared order, integers low
\* byte first, arrays element by element.
BytesFromStruct(pkt) ==
    LittleEndian(pkt.Header.Size, 2) \o LittleEndian(pkt.Header.Type, 2)
        \o LittleEndian(pkt.Header.Padding, 4)
        \o pkt.Copyright \o pkt.ServerVector \o pkt.ClientVector

\* What client.conn.Write may answer to p: the count of bytes it took and
\* whether it failed.
WriteAnswers(p) ==
    {[n |-> n, err |-> e] : n \in {0, Len(p) \div 2, Len(p)}, e \in BOOLEAN}

SendPacketChecksCount(length, ans) == IF ans.err \/ ans.n < length THEN -1 ELSE 0

\* Lines 63-67: -1 when Write gave an error, else 0; the count is dropped.
SendPacketReturns(length, ans) == IF ans.err THEN -1 ELSE 0

\* SendPacket(client, pkt, length) when Write answers ans: pkt[:length]
\* panics past the end of pkt, before anything is written.
SendPacketOf(op, pkt, length, ans) ==
    IF length > Len(pkt)
    THEN /\ last' = [op |-> op, panic |-> TRUE, length |-> length]
         /\ UNCHANGED wire
    ELSE /\ wire' = SubSeq(pkt, 1, length)
         /\ last' = [op |-> op, panic |-> FALSE, length |-> length,
                     n |-> ans.n, err |-> ans.err,
                     ret |-> SendPacketReturns(length, ans)]

Packets == {Vector(0, 8), Vector(1, 12)}

SendPacket(pkt, length) ==
    /\ client.connected
    /\ \E ans \in WriteAnswers(SubSeq(pkt, 1, Min(length, Len(pkt)))) :
          SendPacketOf("SendPacket", pkt, length, ans)
    /\ UNCHANGED <<cfgVars, dbVars, client, layVars>>

WelcomePktSwapped(c) ==
    [Header |-> [Size |-> WelcomeSize, Type |-> WelcomeType, Padding |-> 0],
     Copyright |-> Copy(Zeros(CopyrightSize), copyrightBytes),
     ServerVector |-> Copy(Zeros(VectorSize), c.clientVector),
     ClientVector |-> Copy(Zeros(VectorSize), c.serverVector)]

\* Lines 72-77: new(WelcomePkt) is all zero, then the header fields and the
\* three copies.
WelcomePktOf(c) ==
    [Header |-> [Size |-> WelcomeSize, Type |-> WelcomeType, Padding |-> 0],
     Copyright |-> Copy(Zeros(CopyrightSize), copyrightBytes),
     ServerVector |-> Copy(Zeros(VectorSize), c.serverVector),
     ClientVector |-> Copy(Zeros(VectorSize), c.clientVector)]

SendWelcome ==
    /\ client.connected
    /\ LET data == BytesFromStruct(WelcomePktOf(client)) IN
         \E ans \in WriteAnswers(SubSeq(data, 1, Min(WelcomeSize, Len(data)))) :
            SendPacketOf("SendWelcome", data, WelcomeSize, ans)
    /\ UNCHANGED <<cfgVars, dbVars, client, layVars>>

DoNewClient ==
    \E cseed \in 0..MaxSeed, sseed \in 0..MaxSeed, clen \in VectorLens, slen \in VectorLens :
        NewClient(cseed, clen, sseed, slen)
DoSendPacket == \E pkt \in Packets, length \in {0, 8, 12} : SendPacket(pkt, length)

\* The packet handlers on one connection.
NextPkt ==
    \/ DoNewClient
    \/ DoSendPacket
    \/ SendWelcome

SpecPkt == Init /\ [][NextPkt]_vars

(***************************************************************************)
(* character.go: the records, each a sequence of fields in the declared    *)
(* order; a field is count elements of a primitive or of another record    *)
(* (count 1 for a scalar or an embedded record).                           *)
(***************************************************************************)
F(name, elem, count) == [name |-> name, elem |-> elem, count |-> count]

GuildcardEntry ==
    <<F("Guildcard", "uint32", 1), F("Name", "uint16", 24), F("TeamName", "uint16", 16),
      F("Description", "uint16", 88), F("Reserved", "uint8", 1), F("Language", "uint8", 1),
      F("SectionID", "uint8", 1), F("CharClass", "uint8", 1), F("padding", "uint32", 1),
      F("Comment", "uint16", 88)>>

GuildcardData ==
    <<F("Unknown", "uint8", 276), F("Blocked", "uint8", 7656), F("Unknown2", "uint8", 120),
      F("Entries", "GuildcardEntry", 104), F("Unknown3", "uint8", 444)>>

CharacterStats ==
    <<F("ATP", "uint16", 1), F("MST", "uint16", 1), F("EVP", "uint16", 1),
      F("HP", "uint16", 1), F("DFP", "uint16", 1), F("TP", "uint16", 1),
      F("LCK", "uint16", 1), F("ATA", "uint16", 1)>>

CharacterInfo ==
    <<F("NameColorChksm", "uint32", 1), F("SectionID", "uint8", 1),
      F("CharClass", "uint8", 1), F("V2flags", "uint8", 1), F("Version", "uint8", 1),
      F("V1Flags", "uint32", 1), F("Costume", "uint16", 1), F("Skin", "uint16", 1),
      F("Face", "uint16", 1), F("Head", "uint16", 1), F("Hair", "uint16", 1),
      F("HairRed", "uint16", 1), F("HairGreen", "uint16", 1), F("HairBlue", "uint16", 1),
      F("PropX", "float32", 1), F("PropY", "float32", 1), F("Name", "uint16", 16)>>

ItemWithoutData2 ==
    <<F("Equipped", "uint32", 1), F("Flags", "uint32", 1), F("Data", "uint32", 1),
      F("ItemID", "uint32", 1)>>

Item ==
    <<F("Equipped", "uint32", 1), F("Flags", "uint32", 1), F("Data", "uint32", 1),
      F("ItemID", "uint32", 1), F("Data2", "uint32", 1)>>

Inventory ==
    <<F("NumItems", "uint8", 1), F("HPMatsUsed", "uint8", 1), F("TPMatsUsed", "uint8", 1),
      F("Language", "uint8", 1), F("Items", "Item", 30)>>

BankItem ==
    <<F("Data", "uint32", 1), F("ItemID", "uint32", 1), F("Data2", "uint32", 1),
      F("Amount", "uint16", 1), F("Flags", "uint16", 1)>>

Bank ==
    <<F("NumItems", "uint32", 1), F("Meseta", "uint32", 1), F("Items", "BankItem", 200)>>

Character ==
    <<F("CharacterStats", "CharacterStats", 1), F("Unknown", "uint8", 8),
      F("Level", "uint32", 1), F("Exp", "uint32", 1), F("Meseta", "uint32", 1),
      F("GuildcardStr", "uint8", 24), F("NameColor", "uint32", 1), F("Model", "uint8", 1),
      F("Unused", "uint8", 11), F("Playtime", "uint32", 1),
      F("CharacterInfo", "CharacterInfo", 1), F("Config", "uint8", 232),
      F("Techniques", "uint8", 20)>>

CharacterPreview ==
    <<F("Experience", "uint32", 1), F("Level", "uint32", 1), F("GuildcardStr", "uint8", 16),
      F("Unknown", "uint32", 2), F("NameColor", "uint32", 1), F("Model", "uint8", 1),
      F("Unused", "uint8", 15), F("CharacterInfo", "CharacterInfo", 1),
      F("Playtime", "uint32", 1)>>

FullCharacter ==
    <<F("Inventory", "Inventory", 1), F("Character", "Character", 1),
      F("Unknown", "uint8", 16), F("Options", "uint32", 1), F("QuestData1", "uint8", 520),
      F("Bank", "Bank", 1), F("Guildcard", "uint32", 1), F("Name", "uint16", 16),
      F("TeamName", "uint16", 16), F("GuildcardDesc", "uint16", 88),
      F("Reserved1", "uint8", 1), F("Reserved2", "uint8", 1), F("SectionID", "uint8", 1),
      F("CharClass", "uint8", 1), F("Unknown2", "uint32", 1),
      F("SymbolChats", "uint8", 1248), F("Shortcuts", "uint8", 2624),
      F("Autoreply", "uint16", 172), F("Infoboard", "uint16", 172),
      F("Unknown3", "uint8", 28), F("ChallengeData", "uint8", 320),
      F("TechMenu", "uint8", 40), F("Unknown4", "uint8", 44), F("QuestData2", "uint8", 88),
      F("Unknown5", "uint8", 276), F("KeyConfig", "uint8", 364),
      F("JoystickConfig", "uint8", 56), F("Guildcard2", "uint32", 1),
      F("TeamID", "uint32", 1), F("TeamInfo", "uint8", 8), F("TeamPrivilege", "uint16", 1),
      F("Reserved3", "uint16", 1), F("TeamName2", "uint16", 16),
      F("TeamFlag", "uint8", 2048), F("TeamRewards", "uint32", 2)>>

StructTypes ==
    {"GuildcardEntry", "GuildcardData", "CharacterStats", "CharacterInfo", "Item",
     "Inventory", "BankItem", "Bank", "Character", "CharacterPreview", "FullCharacter"}

FieldsOf(t) ==
    CASE t = "GuildcardEntry" -> GuildcardEntry
      [] t = "GuildcardData" -> GuildcardData
      [] t = "CharacterStats" -> CharacterStats
      [] t = "CharacterInfo" -> CharacterInfo
      [] t = "Item" -> Item
      [] t = "Inventory" -> Inventory
      [] t = "BankItem" -> BankItem
      [] t = "Bank" -> Bank
      [] t = "Character" -> Character
      [] t = "CharacterPreview" -> CharacterPreview
      [] t = "FullCharacter" -> FullCharacter

\* The size of a primitive, which is its alignment too.
PrimSize(t) ==
    CASE t = "uint8" -> 1
      [] t = "uint16" -> 2
      [] t = "uint32" -> 4
      [] t = "float32" -> 4

AlignUp(off, a) == ((off + a - 1) \div a) * a

Max(a, b) == IF a > b THEN a ELSE b

\* The number of elements of a field in a record whose NumItems holds n:
\* the array length is part of the type ([30]Item, [200]BankItem).
ElemCount(f, n) == f.count

\* The structs in the order of their declarations: a struct is declared
\* after the structs it embeds.
TypeOrder ==
    <<"GuildcardEntry", "GuildcardData", "CharacterStats", "CharacterInfo", "Item",
      "Inventory", "BankItem", "Bank", "Character", "CharacterPreview", "FullCharacter">>

\* Go's layout of a struct: each field at the next offset that is a multiple
\* of its alignment, the struct aligned as its most aligned field and its
\* size rounded up to that.
IsLaid(t) == \E i \in 1..Len(laid) : laid[i].type = t

LaidOf(t) == laid[CHOOSE i \in 1..Len(laid) : laid[i].type = t]

AlignOf(t) == IF t \in StructTypes THEN LaidOf(t).align ELSE PrimSize(t)

SizeOf(t) == IF t \in StructTypes THEN LaidOf(t).size ELSE PrimSize(t)

\* The values a record's NumItems may hold when it is laid out.
NumItemsValues == {0, 30, 255}

Finished == IF walk.type = "none" THEN TRUE ELSE walk.idx = Len(FieldsOf(walk.type))

\* Beginning the layout of the next struct, for a record whose NumItems
\* holds numItems.
LayoutBegin(numItems) ==
    /\ Finished
    /\ Len(laid) < Len(TypeOrder)
    /\ walk' = [type |-> TypeOrder[Len(laid) + 1], numItems |-> numItems, idx |-> 0,
                at |-> 0, sum |-> 0, end |-> 0, align |-> 1]
    /\ UNCHANGED <<cfgVars, dbVars, pktVars, laid, last>>

\* The next field of the struct: its offset (at), the sum of the sizes of
\* the fields before it (sum), the offset past it (end); past the last field
\* the struct's size and alignment are known.
LayoutField ==
    /\ walk.type \in StructTypes
    /\ walk.idx < Len(FieldsOf(walk.type))
    /\ LET fields == FieldsOf(walk.type)
           f == fields[walk.idx + 1]
           at == AlignUp(walk.end, AlignOf(f.elem))
           size == ElemCount(f, walk.numItems) * SizeOf(f.elem)
           align == Max(walk.align, AlignOf(f.elem))
           prev == IF walk.idx = 0 THEN 0 ELSE walk.end - walk.at IN
         /\ walk' = [walk EXCEPT !.idx = walk.idx + 1, !.at = at,
                                 !.sum = walk.sum + prev,
                                 !.end = at + size, !.align = align]
         /\ laid' = IF walk.idx + 1 = Len(fields)
                    THEN Append(laid, [type |-> walk.type, align |-> align,
                                       size |-> AlignUp(at + size, align)])
                    ELSE laid
    /\ UNCHANGED <<cfgVars, dbVars, pktVars, last>>

DoLayoutBegin == \E n \in NumItemsValues : LayoutBegin(n)

\* The layout of the records.
NextLayout ==
    \/ DoLayoutBegin
    \/ LayoutField

SpecLayout == Init /\ [][NextLayout]_vars

(***************************************************************************)
(* The claims.                                                             *)
(***************************************************************************)
WelcomeSent ==
    /\ last.op = "SendWelcome"
    /\ Len(client.clientVector) = VectorSize
    /\ Len(client.serverVector) = VectorSize

\* C1: for a client whose two vectors are 48 bytes each, SendWelcome hands
\* the transport exactly 200 bytes: the header with size 200 = 8 + 96 + 48 +
\* 48, type 3 and a zero reserved field, then the 96-byte banner (the
\* copyright string, then zeros), then the server vector at offset 104 and
\* the client vector at offset 152, byte for byte.
C1_WelcomeFrame ==
    WelcomeSent =>
        /\ ~last.panic
        /\ Len(wire) = 200
        /\ BBHeaderSize + CopyrightSize + VectorSize + VectorSize = 200
        /\ SubSeq(wire, 1, 8) = <<200, 0, 3, 0, 0, 0, 0, 0>>
        /\ SubSeq(wire, 9, 8 + Len(bbCopyright)) = bbCopyright
        /\ \A i \in (8 + Len(bbCopyright) + 1)..104 : wire[i] = 0
        /\ SubSeq(wire, 105, 152) = client.serverVector
        /\ SubSeq(wire, 153, 200) = client.clientVector

C1_Witness ==
    /\ WelcomeSent
    /\ ~last.panic
    /\ Len(wire) = 200
    /\ client.clientVector # client.serverVector
    /\ wire[105] # wire[153]

Sent == last.op \in {"SendPacket", "SendWelcome"} /\ ~last.panic

C7_PositiveOnWriteError ==
    Sent =>
        /\ last.err => last.ret > 0
        /\ ~last.err => last.ret = 0

\* C3: with the hostname "127.0.0.1" and a cache not yet computed,
\* HostnameBytes returns [127,0,0,1], and the next call, the configuration
\* unchanged, returns the same value.
C3_LoopbackBytes ==
    (last.op = "HostnameBytes" /\ last.hostname = HostLoopback) =>
        /\ last.before[1] = 0 => ~last.panic /\ last.ret = <<127, 0, 0, 1>>
        /\ (last.again /\ last.prev = <<127, 0, 0, 1>>) =>
                ~last.panic /\ last.ret = last.prev

C3_Witness ==
    /\ last.op = "HostnameBytes"
    /\ last.hostname = HostLoopback
    /\ last.again
    /\ last.prev = <<127, 0, 0, 1>>
    /\ last.ret = <<127, 0, 0, 1>>

C5_DatabaseNeverNil ==
    last.op = "Database" =>
        /\ initDbStored[last.config] = 0 => last.panic
        /\ ~last.panic => last.ret # 0 /\ last.ret = initDbStored[last.config]

\* Database panicked after an InitDb that failed to open, an earlier one
\* having succeeded.
C5_Witness ==
    /\ last.op = "Database"
    /\ last.panic
    /\ Len(dbHandles) > 0

\* C9: InitDb returns an error whenever the open or the ping fails, and nil
\* only when both succeeded.
C9_ErrorIffOpenOrPingFailed ==
    last.op = "InitDb" => (last.err <=> ~(last.openOk /\ last.pingOk))

\* C6: at most one configuration is ever created and every call of
\* GetConfig returns that one.
C6_SingleInstance ==
    /\ Len(heap) <= 1
    /\ \A g, h \in Goroutines :
          gor[g].got # 0 /\ gor[h].got # 0 => gor[g].got = gor[h].got

\* C10: the LogLevel of a configuration GetConfig returned is within
\* LogPriorityCritical..LogPriorityLow, and LogMsg never drops a message of
\* priority LogPriorityCritical.
C10_OpenToCritical ==
    /\ \A g \in Goroutines :
          gor[g].pc = "idle" /\ gor[g].got # 0 =>
              heap[gor[g].got].LogLevel \in LogPriorityCritical..LogPriorityLow
    /\ (last.op = "LogMsg" /\ last.priority = LogPriorityCritical) =>
          last.out # "suppressed"

\* C8: in FullCharacter every member lies at the sum of the sizes of the
\* members before it; Inventory takes 4 + 30*20 = 604 bytes whatever its
\* NumItems, Character 400, Bank 8 + 200*16 = 3208, and Bank begins at
\* 604 + 400 + 16 + 4 + 520 = 1544.
C8_FullCharacterOffsets ==
    /\ (walk.type = "FullCharacter" /\ walk.idx >= 1) =>
          /\ walk.at = walk.sum
          /\ FullCharacter[walk.idx].name = "Bank" =>
                /\ walk.at = 1544
                /\ walk.at = 604 + 400 + 16 + 4 + 520
                /\ walk.end - walk.at = 3208
          /\ FullCharacter[walk.idx].name = "Inventory" =>
                walk.at = 0 /\ walk.end = 604
          /\ FullCharacter[walk.idx].name = "Character" =>
                walk.at = 604 /\ walk.end - walk.at = 400
    /\ IsLaid("Inventory") => LaidOf("Inventory").size = 4 + 30 * 20
    /\ IsLaid("Inventory") => LaidOf("Inventory").size = 604
    /\ IsLaid("Character") => LaidOf("Character").size = 400
    /\ IsLaid("Bank") => LaidOf("Bank").size = 8 + 200 * 16
    /\ IsLaid("Bank") => LaidOf("Bank").size = 3208

C8_Witness ==
    /\ walk.type = "FullCharacter"
    /\ walk.idx >= 1
    /\ FullCharacter[walk.idx].name = "Bank"
    /\ walk.at = 1544
    /\ walk.numItems = 255

====
